---------------------------- MODULE Spec2Model ----------------------------
(***************************************************************************)
(* A model of src/app.py: the Streamlit "DevOps Tools Suite".              *)
(*                                                                         *)
(* One behaviour is one browser session.  Every action is one user        *)
(* interaction followed by the script pass(es) it triggers: Streamlit     *)
(* runs app.py from line 1 on every interaction, st.stop() and an         *)
(* uncaught exception end the pass where they occur, and st.rerun()       *)
(* drops what the pass has drawn and runs the script again at once.       *)
(*                                                                         *)
(* Text is a sequence of one-character strings, so that str.lower,        *)
(* str.split, re.search and json.loads are computed on characters.        *)
(***************************************************************************)
EXTENDS Integers, Sequences, FiniteSets, TLC

\* ------------------------------------------------------------------------
\* Python str operations used by the script
\* ------------------------------------------------------------------------

LowerLetters ==
    << "a","b","c","d","e","f","g","h","i","j","k","l","m",
       "n","o","p","q","r","s","t","u","v","w","x","y","z" >>

UpperLetters ==
    << "A","B","C","D","E","F","G","H","I","J","K","L","M",
       "N","O","P","Q","R","S","T","U","V","W","X","Y","Z" >>

\* str.isspace() characters that can occur in a decoded upload
Whitespace == { " ", "\t", "\n", "\r", "\f" }

IndexIn(c, letters) ==
    IF \E k \in 1..Len(letters) : letters[k] = c
    THEN CHOOSE k \in 1..Len(letters) : letters[k] = c
    ELSE 0

UpperChar(c) ==
    IF IndexIn(c, LowerLetters) # 0 THEN UpperLetters[IndexIn(c, LowerLetters)] ELSE c

LowerChar(c) ==
    IF IndexIn(c, UpperLetters) # 0 THEN LowerLetters[IndexIn(c, UpperLetters)] ELSE c

\* s.upper()
str_upper(s) == [k \in 1..Len(s) |-> UpperChar(s[k])]

\* s.lower()
str_lower(s) == [k \in 1..Len(s) |-> LowerChar(s[k])]

\* s[i:i+len(lit)] == lit   (1-based i)
MatchAt(s, i, lit) ==
    /\ i >= 1
    /\ i + Len(lit) - 1 <= Len(s)
    /\ SubSeq(s, i, i + Len(lit) - 1) = lit

\* s.startswith(prefix)
str_startswith(s, prefix) == MatchAt(s, 1, prefix)

\* s.endswith(suffix)
str_endswith(s, suffix) == MatchAt(s, Len(s) - Len(suffix) + 1, suffix)

RECURSIVE lstrip(_)
lstrip(s) ==
    IF s # << >> /\ Head(s) \in Whitespace THEN lstrip(Tail(s)) ELSE s

RECURSIVE rstrip(_)
rstrip(s) ==
    IF s # << >> /\ s[Len(s)] \in Whitespace THEN rstrip(SubSeq(s, 1, Len(s) - 1)) ELSE s

\* s.strip(): leading and trailing whitespace removed
str_strip(s) == rstrip(lstrip(s))

\* s.split('\n'): the pieces between newlines, always at least one piece
RECURSIVE SplitFrom(_, _, _)
SplitFrom(s, i, cur) ==
    IF i > Len(s) THEN << cur >>
    ELSE IF s[i] = "\n" THEN << cur >> \o SplitFrom(s, i + 1, << >>)
    ELSE SplitFrom(s, i + 1, Append(cur, s[i]))

str_split_lines(s) == SplitFrom(s, 1, << >>)

\* ------------------------------------------------------------------------
\* Python values produced by json.loads
\* ------------------------------------------------------------------------

JNull == [t |-> "null"]
JBool(b) == [t |-> "bool", b |-> b]
JNum(n) == [t |-> "num", n |-> n]
JStr(s) == [t |-> "str", s |-> s]
JArr(a) == [t |-> "arr", a |-> a]
\* a dict: its items in insertion order, keys distinct
JObj(o) == [t |-> "obj", o |-> o]

\* {}
EmptyDict == JObj(<< >>)

HasKey(d, k) == \E n \in 1..Len(d.o) : d.o[n][1] = k

KeyIndex(d, k) == CHOOSE n \in 1..Len(d.o) : d.o[n][1] = k

\* d[k] = v
DictPut(d, k, v) ==
    IF HasKey(d, k)
    THEN JObj([d.o EXCEPT ![KeyIndex(d, k)] = << k, v >>])
    ELSE JObj(Append(d.o, << k, v >>))

\* d.get(k, default)
DictGet(d, k, default) ==
    IF HasKey(d, k) THEN d.o[KeyIndex(d, k)][2] ELSE default

\* bool(v)
Truthy(v) ==
    CASE v.t = "null" -> FALSE
      [] v.t = "bool" -> v.b
      [] v.t = "num" -> v.n # 0
      [] v.t = "str" -> v.s # << >>
      [] v.t = "arr" -> v.a # << >>
      [] v.t = "obj" -> v.o # << >>

\* ------------------------------------------------------------------------
\* json.loads (CPython json.decoder / json.scanner), on the JSON the model
\* texts can contain: objects, arrays, strings without escapes, integers,
\* null, true, false.  The texts drawn below hold no backslash, no '.', no
\* exponent and no NaN/Infinity, so those branches of the scanner are not
\* modelled.
\* ------------------------------------------------------------------------

\* json.decoder.WHITESPACE: ' \t\n\r'
JsonWs == { " ", "\t", "\n", "\r" }

Digits == << "0","1","2","3","4","5","6","7","8","9" >>

IsDigit(c) == IndexIn(c, Digits) # 0

DigitVal(c) == IndexIn(c, Digits) - 1

\* _w(s, i).end()
RECURSIVE SkipWs(_, _)
SkipWs(s, i) ==
    IF i <= Len(s) /\ s[i] \in JsonWs THEN SkipWs(s, i + 1) ELSE i

\* the result of one scanning step: the value and the index after it
Scanned(v, i) == [ok |-> TRUE, v |-> v, i |-> i]

\* JSONDecodeError / StopIteration
ScanError == [ok |-> FALSE, v |-> JNull, i |-> 0]

\* py_scanstring(s, i) with strict=True; i is the index after the opening quote
RECURSIVE scanstring(_, _, _)
scanstring(s, i, acc) ==
    IF i > Len(s) THEN ScanError                       \* unterminated string
    ELSE IF s[i] = "\"" THEN Scanned(acc, i + 1)
    ELSE IF s[i] \in { "\n", "\t", "\r", "\f" } THEN ScanError   \* control character
    ELSE scanstring(s, i + 1, Append(acc, s[i]))

\* the end of \d* starting at i
RECURSIVE DigitsEnd(_, _)
DigitsEnd(s, i) ==
    IF i <= Len(s) /\ IsDigit(s[i]) THEN DigitsEnd(s, i + 1) ELSE i

\* int(s[i..j-1]) for a digit string
RECURSIVE IntOf(_, _, _, _)
IntOf(s, i, j, acc) ==
    IF i >= j THEN acc ELSE IntOf(s, i + 1, j, acc * 10 + DigitVal(s[i]))

\* NUMBER_RE.match(s, i): -?(0|[1-9]\d*)
scannumber(s, i) ==
    LET neg == i <= Len(s) /\ s[i] = "-"
        d == IF neg THEN i + 1 ELSE i
    IN  IF d > Len(s) \/ ~IsDigit(s[d]) THEN ScanError
        ELSE IF s[d] = "0" THEN Scanned(JNum(0), d + 1)
        ELSE LET e == DigitsEnd(s, d)
                 n == IntOf(s, d, e, 0)
             IN  Scanned(JNum(IF neg THEN 0 - n ELSE n), e)

RECURSIVE scan_once(_, _), ObjectPairs(_, _, _), ArrayItems(_, _, _)

\* py_make_scanner._scan_once(string, idx)
scan_once(s, i) ==
    IF i > Len(s) THEN ScanError
    ELSE IF s[i] = "\"" THEN
        LET r == scanstring(s, i + 1, << >>)
        IN  IF r.ok THEN Scanned(JStr(r.v), r.i) ELSE ScanError
    ELSE IF s[i] = "{" THEN
        \* JSONObject: an empty object, or the first key's opening quote
        LET j == IF i + 1 <= Len(s) /\ s[i + 1] = "\"" THEN i + 1 ELSE SkipWs(s, i + 1)
        IN  IF j <= Len(s) /\ s[j] = "}" THEN Scanned(EmptyDict, j + 1)
            ELSE IF j <= Len(s) /\ s[j] = "\"" THEN ObjectPairs(s, j + 1, EmptyDict)
            ELSE ScanError
    ELSE IF s[i] = "[" THEN
        \* JSONArray
        LET j == SkipWs(s, i + 1)
        IN  IF j <= Len(s) /\ s[j] = "]" THEN Scanned(JArr(<< >>), j + 1)
            ELSE ArrayItems(s, j, << >>)
    ELSE IF MatchAt(s, i, << "n","u","l","l" >>) THEN Scanned(JNull, i + 4)
    ELSE IF MatchAt(s, i, << "t","r","u","e" >>) THEN Scanned(JBool(TRUE), i + 4)
    ELSE IF MatchAt(s, i, << "f","a","l","s","e" >>) THEN Scanned(JBool(FALSE), i + 5)
    ELSE scannumber(s, i)

\* the loop of JSONObject; i is the index after the opening quote of a key
ObjectPairs(s, i, acc) ==
    LET k == scanstring(s, i, << >>)
    IN  IF ~k.ok THEN ScanError
        ELSE
        LET c == SkipWs(s, k.i)
        IN  IF c > Len(s) \/ s[c] # ":" THEN ScanError
            ELSE
            LET v == scan_once(s, SkipWs(s, c + 1))
            IN  IF ~v.ok THEN ScanError
                ELSE
                LET d == DictPut(acc, k.v, v.v)
                    e == SkipWs(s, v.i)
                IN  IF e > Len(s) THEN ScanError
                    ELSE IF s[e] = "}" THEN Scanned(d, e + 1)
                    ELSE IF s[e] # "," THEN ScanError
                    ELSE LET q == SkipWs(s, e + 1)
                         IN  IF q <= Len(s) /\ s[q] = "\"" THEN ObjectPairs(s, q + 1, d)
                             ELSE ScanError

\* the loop of JSONArray; i is the index of the next item
ArrayItems(s, i, acc) ==
    LET v == scan_once(s, i)
    IN  IF ~v.ok THEN ScanError
        ELSE
        LET a == Append(acc, v.v)
            e == SkipWs(s, v.i)
        IN  IF e > Len(s) THEN ScanError
            ELSE IF s[e] = "]" THEN Scanned(JArr(a), e + 1)
            ELSE IF s[e] # "," THEN ScanError
            ELSE ArrayItems(s, SkipWs(s, e + 1), a)

\* json.loads(s): JSONDecoder.decode; "Extra data" when text follows the value
json_loads(s) ==
    LET r == scan_once(s, SkipWs(s, 1))
    IN  IF r.ok /\ SkipWs(s, r.i) = Len(s) + 1 THEN [ok |-> TRUE, v |-> r.v]
        ELSE [ok |-> FALSE, v |-> JNull]

\* ------------------------------------------------------------------------
\* re.search(r'```json\n(.*?)\n```', text, re.DOTALL)
\* ------------------------------------------------------------------------

\* the backquote character (a TLA+ string cannot hold one)
Backquote == "BACKQUOTE"

FenceOpen == << Backquote, Backquote, Backquote, "j","s","o","n","\n" >>

FenceClose == << "\n", Backquote, Backquote, Backquote >>

\* a greedy (.*): the last index >= j where the closing fence matches, or 0
GreedyEnd(s, j) ==
    LET ends == { e \in j..Len(s) : MatchAt(s, e, FenceClose) }
    IN  IF ends = { } THEN 0 ELSE CHOOSE e \in ends : \A f \in ends : f <= e

\* the lazy (.*?): the first index >= j where the closing fence matches, or 0
RECURSIVE LazyEnd(_, _)
LazyEnd(s, j) ==
    IF j + Len(FenceClose) - 1 > Len(s) THEN 0
    ELSE IF MatchAt(s, j, FenceClose) THEN j
    ELSE LazyEnd(s, j + 1)

NoMatch == [matched |-> FALSE, group1 |-> << >>]

\* the leftmost start from which the whole pattern matches; group(1) is the
\* text between the fences
RECURSIVE SearchFrom(_, _)
SearchFrom(s, i) ==
    IF i + Len(FenceOpen) - 1 > Len(s) THEN NoMatch
    ELSE IF MatchAt(s, i, FenceOpen) /\ LazyEnd(s, i + Len(FenceOpen)) # 0
         THEN [matched |-> TRUE,
               group1 |-> SubSeq(s, i + Len(FenceOpen), LazyEnd(s, i + Len(FenceOpen)) - 1)]
    ELSE SearchFrom(s, i + 1)

re_search_json(text) == SearchFrom(text, 1)

\* ------------------------------------------------------------------------
\* Uploaded files and the file checks
\* ------------------------------------------------------------------------

\* st.file_uploader returns None until a file is chosen
NoFile == [present |-> FALSE, name |-> << >>, content |-> << >>]

UploadedFile(name, content) == [present |-> TRUE, name |-> name, content |-> content]

\* dockerfile_keywords, line 181
dockerfile_keywords ==
    { << "F","R","O","M" >>, << "R","U","N" >>, << "C","M","D" >>,
      << "E","N","T","R","Y","P","O","I","N","T" >>, << "C","O","P","Y" >>,
      << "A","D","D" >>, << "E","N","V" >>, << "W","O","R","K","D","I","R" >>,
      << "E","X","P","O","S","E" >> }

\* is_dockerfile(file_name, file_content), lines 176-183
is_dockerfile(file_name, file_content) ==
    IF str_lower(file_name) = << "d","o","c","k","e","r","f","i","l","e" >>
    THEN TRUE
    ELSE LET content_lines == str_split_lines(str_upper(file_content))
         IN  \E n \in 1..Len(content_lines) :
                 \E kw \in dockerfile_keywords :
                     str_startswith(str_strip(content_lines[n]), kw)

\* the extensions of line 216
guardian_extensions ==
    { << ".","y","a","m","l" >>, << ".","y","m","l" >>, << ".","j","s","o","n" >>,
      << ".","t","f" >>, << ".","i","n","i" >>, << ".","c","o","n","f" >> }

\* the condition of line 216
guardian_accepts(file_name) ==
    \/ file_name = << "D","o","c","k","e","r","f","i","l","e" >>
    \/ \E ext \in guardian_extensions : str_endswith(file_name, ext)

\* ------------------------------------------------------------------------
\* The two calls to the external model
\* ------------------------------------------------------------------------

\* What model.generate_content does: it raises (network, auth, quota), or it
\* returns a response whose .text raises (no candidate text), or one whose
\* .text is a text.
CallError(message) == [kind |-> "error", message |-> message, text |-> << >>]

NoText == [kind |-> "notext", message |-> << >>, text |-> << >>]

ResponseText(text) == [kind |-> "text", message |-> << >>, text |-> text]

NoCall == [kind |-> "none", message |-> << >>, text |-> << >>]

\* f"Error: {str(e)}", line 35
ErrorResult(message) == << "E","r","r","o","r",":"," " >> \o message

\* analyze_with_gemini(file_content), lines 18-35: the call and .text are both
\* inside the try
analyze_with_gemini(file_content, ext) ==
    IF ext.kind = "text"
    THEN [outcome |-> "returned", error |-> FALSE, text |-> ext.text]
    ELSE [outcome |-> "returned", error |-> TRUE, text |-> ErrorResult(ext.message)]

\* lines 166-170 of analyze_dockerfile: the fenced block if the pattern
\* matches, else the whole text; ok is FALSE when json.loads raises
parse_response(text) ==
    LET json_match == re_search_json(text)
    IN  IF json_match.matched THEN json_loads(json_match.group1) ELSE json_loads(text)

\* analyze_dockerfile(file_content), lines 144-173.  generate_content is
\* called on line 158, before the try of line 159.  The record holds how the
\* function ends, what it returns, whether it assigned
\* st.session_state.raw_analysis (line 161) and whether it called st.error
\* (line 172).
analyze_dockerfile(file_content, ext) ==
    IF ext.kind = "error"
    THEN [outcome |-> "raised", value |-> JNull, raw_set |-> FALSE, st_error |-> FALSE]
    ELSE IF ext.kind = "notext"
    THEN [outcome |-> "returned", value |-> EmptyDict, raw_set |-> FALSE, st_error |-> TRUE]
    ELSE IF parse_response(ext.text).ok
    THEN [outcome |-> "returned", value |-> parse_response(ext.text).v,
          raw_set |-> TRUE, st_error |-> FALSE]
    ELSE [outcome |-> "returned", value |-> EmptyDict, raw_set |-> TRUE, st_error |-> TRUE]

\* ------------------------------------------------------------------------
\* The template renderers
\* ------------------------------------------------------------------------

\* iter(v) succeeds for a list, a str and a dict; TypeError otherwise
Iterable(v) == v.t \in { "arr", "str", "obj" }

\* list(v): the items of a list, the characters of a str, the keys of a dict
Items(v) ==
    CASE v.t = "arr" -> v.a
      [] v.t = "str" -> [k \in 1..Len(v.s) |-> JStr(<< v.s[k] >>)]
      [] v.t = "obj" -> [k \in 1..Len(v.o) |-> JStr(v.o[k][1])]
      [] OTHER -> << >>

KeyPorts == << "p","o","r","t","s" >>
KeyEnvVars == << "e","n","v","_","v","a","r","s" >>
KeyCommand == << "c","o","m","m","a","n","d" >>
KeyName == << "n","a","m","e" >>
KeyValue == << "v","a","l","u","e" >>

\* a variant of lines 47 and 99 whose default is the empty list
DefaultPortsNone == JArr(<< >>)

\* the default of dockerfile_config.get('ports', [80]), lines 47 and 99
DefaultPorts == JArr(<< JNum(80) >>)

\* "if dockerfile_config is None: dockerfile_config = {}", lines 43-44, 96-97
ConfigOrEmpty(dockerfile_config) ==
    IF dockerfile_config.t = "null" THEN EmptyDict ELSE dockerfile_config

\* env['name'] and env['value'] succeed, line 61
EnvEntryOk(env) == env.t = "obj" /\ HasKey(env, KeyName) /\ HasKey(env, KeyValue)

\* generate_deployment_yaml(image_name, dockerfile_config), lines 39-88.
\* raised is TRUE when the function ends in an exception: .get on a value
\* that is no dict, iteration over a value that is not iterable, env['name']
\* on an entry that has none.
generate_deployment_yaml(image_name, dockerfile_config) ==
    LET config == ConfigOrEmpty(dockerfile_config)
        failed == [raised |-> TRUE, name |-> << >>, app |-> << >>,
                   container_name |-> << >>, image |-> << >>, ports |-> << >>,
                   has_env |-> FALSE, env |-> << >>,
                   has_command |-> FALSE, command |-> << >>]
    IN  IF config.t # "obj" THEN failed
        ELSE
        LET ports == DictGet(config, KeyPorts, DefaultPorts)
            env_vars == DictGet(config, KeyEnvVars, JArr(<< >>))
            command == DictGet(config, KeyCommand, JNull)
        IN  IF ~Iterable(ports) THEN failed
            ELSE IF Truthy(env_vars) /\ ~Iterable(env_vars) THEN failed
            ELSE IF Truthy(env_vars)
                    /\ \E n \in 1..Len(Items(env_vars)) : ~EnvEntryOk(Items(env_vars)[n])
                 THEN failed
            ELSE [raised |-> FALSE,
                  name |-> image_name \o << "-deployment" >>,
                  app |-> image_name,
                  container_name |-> image_name,
                  image |-> image_name,
                  ports |-> [n \in 1..Len(Items(ports)) |->
                                [containerPort |-> Items(ports)[n]]],
                  has_env |-> Truthy(env_vars),
                  env |-> IF Truthy(env_vars)
                          THEN [n \in 1..Len(Items(env_vars)) |->
                                   [name |-> DictGet(Items(env_vars)[n], KeyName, JNull),
                                    value |-> DictGet(Items(env_vars)[n], KeyValue, JNull)]]
                          ELSE << >>,
                  has_command |-> Truthy(command),
                  command |-> IF ~Truthy(command) THEN << >>
                              ELSE IF command.t = "arr" THEN command.a
                              ELSE << command >>]

\* generate_service_yaml(image_name, dockerfile_config), lines 92-115
generate_service_yaml(image_name, dockerfile_config) ==
    LET config == ConfigOrEmpty(dockerfile_config)
        failed == [raised |-> TRUE, name |-> << >>, selector |-> << >>,
                   ports |-> << >>, type |-> "ClusterIP"]
    IN  IF config.t # "obj" THEN failed
        ELSE
        LET ports == DictGet(config, KeyPorts, DefaultPorts)
        IN  IF ~Iterable(ports) THEN failed
            ELSE [raised |-> FALSE,
                  name |-> image_name \o << "-service" >>,
                  selector |-> image_name,
                  ports |-> [n \in 1..Len(Items(ports)) |->
                                [protocol |-> "TCP",
                                 port |-> Items(ports)[n],
                                 targetPort |-> Items(ports)[n]]],
                  type |-> "ClusterIP"]

\* generate_ingress_yaml(image_name, host_name), lines 119-141
generate_ingress_yaml(image_name, host_name) ==
    [name |-> image_name \o << "-ingress" >>,
     host |-> host_name,
     path |-> "/",
     pathType |-> "Prefix",
     service_name |-> image_name \o << "-service" >>,
     service_port |-> JNum(80)]

\* ------------------------------------------------------------------------
\* The text of the manifests.  A manifest is the sequence of its lines; a
\* line is the column at which its text starts, whether the text starts
\* with "- ", the column of its key, the key and the value written after
\* the colon.  A value is kept as the value that str() is applied to.
\* ------------------------------------------------------------------------

\* nothing follows the colon
NoValue == [t |-> "none"]

\* "<at spaces>key: value"
Line(at, key, value) ==
    [item |-> FALSE, at |-> at, col |-> at, key |-> key, value |-> value]

\* "<at spaces>- <pad spaces>key: value"
ItemLine(at, pad, key, value) ==
    [item |-> TRUE, at |-> at, col |-> at + 2 + pad, key |-> key, value |-> value]

\* container_spec.items(), lines 53-65, of the record d that
\* generate_deployment_yaml builds: the keys in insertion order
container_spec(d) ==
    << << "name", d.container_name >>, << "image", d.image >>,
       << "ports", d.ports >> >>
    \o (IF d.has_env THEN << << "env", d.env >> >> ELSE << >>)
    \o (IF d.has_command THEN << << "command", d.command >> >> ELSE << >>)

\* container_spec_str, line 68: f'        {k}: {v}\n' for each item, joined;
\* every piece starts with eight spaces
container_spec_str(d) ==
    [n \in 1..Len(container_spec(d)) |->
        [lead |-> 8, key |-> container_spec(d)[n][1],
         value |-> container_spec(d)[n][2]]]

\* deployment_yaml, lines 70-86.  The last template line is
\* "      - {container_spec_str}": the first piece of container_spec_str
\* follows the "- " on that line, the other pieces are lines of their own.
deployment_yaml(d) ==
    << Line(0, "apiVersion", "apps/v1"),
       Line(0, "kind", "Deployment"),
       Line(0, "metadata", NoValue),
       Line(2, "name", d.name),
       Line(0, "spec", NoValue),
       Line(2, "replicas", 1),
       Line(2, "selector", NoValue),
       Line(4, "matchLabels", NoValue),
       Line(6, "app", d.app),
       Line(2, "template", NoValue),
       Line(4, "metadata", NoValue),
       Line(6, "labels", NoValue),
       Line(8, "app", d.app),
       Line(4, "spec", NoValue),
       Line(6, "containers", NoValue),
       ItemLine(6, container_spec_str(d)[1].lead, container_spec_str(d)[1].key,
                container_spec_str(d)[1].value) >>
    \o [n \in 1..(Len(container_spec_str(d)) - 1) |->
           Line(container_spec_str(d)[n + 1].lead, container_spec_str(d)[n + 1].key,
                container_spec_str(d)[n + 1].value)]

\* a variant of line 101 that writes 80 as every targetPort
ports_spec_target80(ports) ==
    [n \in 1..(3 * Len(ports)) |->
        IF n % 3 = 1 THEN ItemLine(4, 0, "protocol", ports[(n + 2) \div 3].protocol)
        ELSE IF n % 3 = 2 THEN Line(6, "port", ports[(n + 2) \div 3].port)
        ELSE Line(6, "targetPort", JNum(80))]

\* ports_spec, line 101: three lines for each port, joined by "\n"
RECURSIVE ports_spec(_)
ports_spec(ports) ==
    IF ports = << >> THEN << >>
    ELSE << ItemLine(4, 0, "protocol", Head(ports).protocol),
            Line(6, "port", Head(ports).port),
            Line(6, "targetPort", Head(ports).targetPort) >>
         \o ports_spec(Tail(ports))

\* service_yaml, lines 103-113; the line of {ports_spec} is blank when there
\* is no port, and a blank line is no line of the manifest
service_yaml(s) ==
    << Line(0, "apiVersion", "v1"),
       Line(0, "kind", "Service"),
       Line(0, "metadata", NoValue),
       Line(2, "name", s.name),
       Line(0, "spec", NoValue),
       Line(2, "selector", NoValue),
       Line(4, "app", s.selector),
       Line(2, "ports", NoValue) >>
    \o ports_spec(s.ports)
    \o << Line(2, "type", s.type) >>

\* ingress_yaml, lines 123-140
ingress_yaml(g) ==
    << Line(0, "apiVersion", "networking.k8s.io/v1"),
       Line(0, "kind", "Ingress"),
       Line(0, "metadata", NoValue),
       Line(2, "name", g.name),
       Line(0, "spec", NoValue),
       Line(2, "rules", NoValue),
       ItemLine(2, 0, "host", g.host),
       Line(4, "http", NoValue),
       Line(6, "paths", NoValue),
       ItemLine(6, 0, "path", g.path),
       Line(8, "pathType", g.pathType),
       Line(8, "backend", NoValue),
       Line(10, "service", NoValue),
       Line(12, "name", g.service_name),
       Line(12, "port", NoValue),
       Line(14, "number", g.service_port) >>

\* ------------------------------------------------------------------------
\* The inputs of a session: the files a user uploads, the texts typed into
\* the two text inputs, and what the external model answers
\* ------------------------------------------------------------------------

FileDockerfile == UploadedFile(<< "D","o","c","k","e","r","f","i","l","e" >>, << "F","R","O","M"," ","a","\n","C","M","D"," ","b" >>)

\* named like a Dockerfile in lower case, no directive in it
FileLowerName == UploadedFile(<< "d","o","c","k","e","r","f","i","l","e" >>, << "x" >>)

\* a YAML file with a line that starts with a Dockerfile keyword once upper-cased
FileYamlEnv == UploadedFile(<< "a",".","y","m","l" >>, << "a",":"," ","1","\n"," ","e","n","v",":"," ","2" >>)

FileJson == UploadedFile(<< "a",".","j","s","o","n" >>, << "{","}" >>)

FileText == UploadedFile(<< "a",".","t","x","t" >>, << "h","i" >>)

Files == { FileDockerfile, FileLowerName, FileYamlEnv, FileJson, FileText }

\* the default values of the two st.text_input widgets, lines 282 and 288
DefaultImageName == << "m","y","-","a","p","p" >>

DefaultHostName == << "e","x","a","m","p","l","e",".","c","o","m" >>

ImageNames == { << >>, DefaultImageName, << "w","e","b" >> }

HostNames == { << >>, DefaultHostName, << "a",".","i","o" >> }

\* a fenced block holding {"ports": [3000]}, with prose before it
TextFencedPorts ==
    << "o","k","\n",Backquote,Backquote,Backquote,"j","s","o","n","\n","{",
       "\"","p","o","r","t","s","\"",":"," ","[","3","0","0","0","]","}",
       "\n",Backquote,Backquote,Backquote >>

\* the whole text is an object
TextBareObject ==
    << "{","\"","p","o","r","t","s","\"",":"," ","[","8","0",","," ","4",
       "4","3","]",","," ","\"","e","n","v","_","v","a","r","s","\"",":",
       " ","[","{","\"","n","a","m","e","\"",":"," ","\"","A","\"",","," ",
       "\"","v","a","l","u","e","\"",":"," ","\"","b","\"","}","]",","," ",
       "\"","c","o","m","m","a","n","d","\"",":"," ","\"","r","u","n","\"",
       "}" >>

\* prose only
TextProse == << "s","o","r","r","y" >>

\* a fenced block whose content does not decode
TextFencedBad ==
    << Backquote,Backquote,Backquote,"j","s","o","n","\n","{","p","o","r",
       "t","s","}","\n",Backquote,Backquote,Backquote >>

TextNull == << "n","u","l","l" >>

TextList == << "[","1","]" >>

\* ports is a number
TextPortsNumber == << "{","\"","p","o","r","t","s","\"",":"," ","8","0","8","0","}" >>

\* env_vars is a list of strings
TextEnvStrings ==
    << "{","\"","e","n","v","_","v","a","r","s","\"",":"," ","[","\"","A",
       "=","b","\"","]","}" >>

TextEmptyObject == << "{","}" >>

ResponseTexts ==
    { TextFencedPorts, TextBareObject, TextProse, TextFencedBad, TextNull,
      TextList, TextPortsNumber, TextEnvStrings, TextEmptyObject }

\* str(e) of a failed call
QuotaMessage == << "4","2","9" >>

\* everything one call to generate_content can do
ExtOutcomes ==
    { CallError(QuotaMessage), NoText } \cup { ResponseText(text) : text \in ResponseTexts }

\* ------------------------------------------------------------------------
\* The session
\* ------------------------------------------------------------------------

VARIABLES
    GEMINI_API_KEY,       \* TRUE when os.getenv("GEMINI_API_KEY") is set, line 9
    tool_option,          \* the sidebar selectbox, line 190
    guardian_uploader,    \* the file held by the uploader of line 206
    dockerfile_uploader,  \* the file held by the uploader of line 241
    k8s_step,             \* st.session_state.k8s_step
    dockerfile_analysis,  \* st.session_state.dockerfile_analysis
    image_name,           \* st.session_state.image_name
    host_name,            \* st.session_state.host_name
    raw_analysis,         \* st.session_state.raw_analysis
    view,                 \* what the page shows after the interaction
    manifests,            \* the three manifests shown in step 3
    last                  \* what the last interaction did

vars ==
    << GEMINI_API_KEY, tool_option, guardian_uploader, dockerfile_uploader,
       k8s_step, dockerfile_analysis, image_name, host_name, raw_analysis,
       view, manifests, last >>

\* a key of st.session_state that was never assigned / that holds v
Unset == [set |-> FALSE]

Set(v) == [set |-> TRUE, v |-> v]

Guardian == "AI-DevOps Guardian"

Generator == "Kubernetes YAML Generator"

\* the messages of st.error / st.success
ErrMissingKey == "Please set your Google Gemini API key."

ErrUnsupported == "Unsupported file type. Please upload a valid DevOps configuration file."

ErrInvalidDockerfile == "Invalid file. Please upload a valid Dockerfile."

ErrRequired == "Please fill in all required fields."

ErrParse == "Failed to parse Dockerfile analysis"

MsgValid == "Valid Dockerfile detected"

MsgComplete == "Analysis Complete!"

\* a script without the test of lines 11-13
KeyNeverMissing == FALSE

\* "if not GEMINI_API_KEY", line 11
KeyMissing == ~GEMINI_API_KEY

\* st.session_state.get('k8s_step', 1), line 235
StepOf(step) == IF step.set THEN step.v ELSE 1

current_step == StepOf(k8s_step)

\* st.session_state.get('dockerfile_analysis', {}), line 306
ConfigOf(analysis) == IF analysis.set THEN analysis.v ELSE EmptyDict

\* lines 304-311 end in an exception: an attribute of st.session_state that
\* was never assigned is read, or a renderer raises
Step3Raises(analysis, img, hst) ==
    \/ ~img.set
    \/ ~hst.set
    \/ generate_deployment_yaml(img.v, ConfigOf(analysis)).raised
    \/ generate_service_yaml(img.v, ConfigOf(analysis)).raised

\* deployment_yaml, service_yaml, ingress_yaml of lines 309-311
Step3Manifests(analysis, img, hst) ==
    [deployment |-> generate_deployment_yaml(img.v, ConfigOf(analysis)),
     service |-> generate_service_yaml(img.v, ConfigOf(analysis)),
     ingress |-> generate_ingress_yaml(img.v, hst.v)]

\* What one pass over the script draws when no button is pressed in it.
\* "footer" is drawn by a pass that reaches the end of the script.
Draw(tool, gfile, dfile, step, analysis, img, hst) ==
    IF KeyMissing THEN { ErrMissingKey }                              \* 11-13
    ELSE { "title", "tool_option" } \cup
    IF tool = Guardian THEN                                           \* 195-228
        { "guardian_uploader", "footer" } \cup
        ( IF ~gfile.present THEN { }
          ELSE IF guardian_accepts(gfile.name) THEN { "file_content", "scan_button" }
          ELSE { ErrUnsupported } )
    ELSE IF step = 1 THEN                                             \* 237-265
        { "dockerfile_uploader" } \cup
        ( IF ~dfile.present THEN { "footer" }
          ELSE IF is_dockerfile(dfile.name, dfile.content)
               THEN { MsgValid, "dockerfile_contents", "analyze_button", "footer" }
          ELSE { ErrInvalidDockerfile } )                             \* st.stop()
    ELSE IF step = 2 THEN                                             \* 268-298
        IF ~analysis.set THEN { "exception" }
        ELSE { "dockerfile_analysis", "image_name_input", "host_name_input",
               "generate_button", "footer" }
    ELSE IF step = 3 THEN                                             \* 301-349
        IF Step3Raises(analysis, img, hst) THEN { "exception" }
        ELSE { "deployment_yaml", "service_yaml", "ingress_yaml",
               "start_over_button", "footer" }
    ELSE { "footer" }

\* what the last interaction did: the interaction, what the external call
\* did, which analysis function ran and how it ended, whether its result
\* carries an error, the messages a pass drew before st.rerun() dropped
\* them, and the texts of the two inputs of step 2 when "Generate Kubernetes
\* Files" was pressed
Did(op, ext, fn, outcome, error, dropped) ==
    [op |-> op, ext |-> ext, fn |-> fn, outcome |-> outcome,
     error |-> error, dropped |-> dropped, typed |-> << << >>, << >> >>]

Typed(did, img, hst) == [did EXCEPT !.typed = << img, hst >>]

\* The script runs to its end (or to its next st.stop() or exception) with
\* these widget values and session values: the last pass of an interaction.
\* pressed is what the pass draws because a button was pressed in it.
\* A widget the pass does not draw loses its value; lines 352-353 assign
\* k8s_step when the pass reaches them and the key is not in the session.
Finish(tool, gfile, dfile, step, analysis, img, hst, raw, pressed, did) ==
    LET drawn == Draw(tool, gfile, dfile, StepOf(step), analysis, img, hst)
    IN  /\ tool_option' = tool
        /\ view' = drawn \cup pressed
        /\ guardian_uploader' = IF "guardian_uploader" \in drawn THEN gfile ELSE NoFile
        /\ dockerfile_uploader' = IF "dockerfile_uploader" \in drawn THEN dfile ELSE NoFile
        /\ k8s_step' = IF "footer" \in drawn /\ ~step.set THEN Set(1) ELSE step
        /\ dockerfile_analysis' = analysis
        /\ image_name' = img
        /\ host_name' = hst
        /\ raw_analysis' = raw
        /\ manifests' = IF "deployment_yaml" \in drawn
                        THEN Set(Step3Manifests(analysis, img, hst))
                        ELSE Unset
        /\ last' = did
        /\ UNCHANGED GEMINI_API_KEY

Init ==
    /\ GEMINI_API_KEY \in BOOLEAN
    /\ tool_option = Guardian
    /\ guardian_uploader = NoFile
    /\ dockerfile_uploader = NoFile
    /\ k8s_step = Unset
    /\ dockerfile_analysis = Unset
    /\ image_name = Unset
    /\ host_name = Unset
    /\ raw_analysis = Unset
    /\ view = { }
    /\ manifests = Unset
    /\ last = Did("none", NoCall, "none", "none", FALSE, { })

\* The conditions under which a pass reaches a button and finds it pressed:
\* the page shows the button, and the script's tests on the way to it hold.
ScanPressed ==
    /\ "scan_button" \in view
    /\ ~KeyMissing                                                     \* 11
    /\ tool_option = Guardian                                          \* 195
    /\ guardian_uploader.present                                       \* 212
    /\ guardian_accepts(guardian_uploader.name)                        \* 216

AnalyzePressed ==
    /\ "analyze_button" \in view
    /\ ~KeyMissing                                                     \* 11
    /\ tool_option = Generator                                         \* 230
    /\ current_step = 1                                                \* 237
    /\ dockerfile_uploader.present                                     \* 248
    /\ is_dockerfile(dockerfile_uploader.name, dockerfile_uploader.content)   \* 252

GeneratePressed ==
    /\ "generate_button" \in view
    /\ ~KeyMissing                                                     \* 11
    /\ tool_option = Generator                                         \* 230
    /\ current_step = 2                                                \* 268
    /\ dockerfile_analysis.set                                         \* 274

StartOverPressed ==
    /\ "start_over_button" \in view
    /\ ~KeyMissing                                                     \* 11
    /\ tool_option = Generator                                         \* 230
    /\ current_step = 3                                                \* 301
    /\ ~Step3Raises(dockerfile_analysis, image_name, host_name)        \* 304-311

\* The page is loaded, or an interaction that changes no input (a download
\* button, a text input edited and left) makes the script run again.
Rerun ==
    /\ Finish(tool_option, guardian_uploader, dockerfile_uploader, k8s_step,
              dockerfile_analysis, image_name, host_name, raw_analysis, { },
              Did("rerun", NoCall, "none", "none", FALSE, { }))

\* a variant of lines 190-195 in which choosing a tool puts the wizard back
\* to its first step
SelectToolResetting(tool) ==
    /\ "tool_option" \in view
    /\ Finish(tool, guardian_uploader, dockerfile_uploader, Set(1),
              dockerfile_analysis, image_name, host_name, raw_analysis, { },
              Did("select_tool", NoCall, "none", "none", FALSE, { }))

\* the selectbox of line 190
SelectTool(tool) ==
    /\ "tool_option" \in view
    /\ Finish(tool, guardian_uploader, dockerfile_uploader, k8s_step,
              dockerfile_analysis, image_name, host_name, raw_analysis, { },
              Did("select_tool", NoCall, "none", "none", FALSE, { }))

\* a file is put into (or removed from) the uploader of line 206
UploadGuardian(file) ==
    /\ "guardian_uploader" \in view
    /\ Finish(tool_option, file, dockerfile_uploader, k8s_step,
              dockerfile_analysis, image_name, host_name, raw_analysis, { },
              Did("upload_guardian", NoCall, "none", "none", FALSE, { }))

\* "Scan for Misconfigurations", lines 220-226
Scan(ext) ==
    /\ ScanPressed
    /\ LET analysis_result == analyze_with_gemini(guardian_uploader.content, ext)
       IN  Finish(tool_option, guardian_uploader, dockerfile_uploader, k8s_step,
                  dockerfile_analysis, image_name, host_name, raw_analysis,
                  IF analysis_result.text # << >> THEN { MsgComplete, "report" } ELSE { },
                  Did("scan", ext, "analyze_with_gemini", analysis_result.outcome,
                      analysis_result.error, { }))

\* a file is put into (or removed from) the uploader of line 241
UploadDockerfile(file) ==
    /\ "dockerfile_uploader" \in view
    /\ Finish(tool_option, guardian_uploader, file, k8s_step,
              dockerfile_analysis, image_name, host_name, raw_analysis, { },
              Did("upload_dockerfile", NoCall, "none", "none", FALSE, { }))

\* a variant of lines 257-262 with line 261 moved before the call of line 259
AnalyzeDockerfileStepFirst(ext) ==
    /\ AnalyzePressed
    /\ LET analysis == analyze_dockerfile(dockerfile_uploader.content, ext)
       IN  IF analysis.outcome = "raised"
           THEN /\ view' = (view \ { "footer" }) \cup { "exception" }
                /\ k8s_step' = Set(2)
                /\ manifests' = Unset
                /\ last' = Did("analyze", ext, "analyze_dockerfile", "raised", FALSE, { })
                /\ UNCHANGED << GEMINI_API_KEY, tool_option, guardian_uploader,
                                dockerfile_uploader, dockerfile_analysis,
                                image_name, host_name, raw_analysis >>
           ELSE Finish(tool_option, guardian_uploader, dockerfile_uploader,
                       Set(2), Set(analysis.value), image_name, host_name,
                       IF analysis.raw_set THEN Set(ext.text) ELSE raw_analysis,
                       { },
                       Did("analyze", ext, "analyze_dockerfile", "returned", FALSE,
                           IF analysis.st_error THEN { ErrParse } ELSE { }))

\* a variant of lines 257-262 without the assignment of line 260
AnalyzeDockerfileNoStore(ext) ==
    /\ AnalyzePressed
    /\ LET analysis == analyze_dockerfile(dockerfile_uploader.content, ext)
       IN  IF analysis.outcome = "raised"
           THEN /\ view' = (view \ { "footer" }) \cup { "exception" }
                /\ manifests' = Unset
                /\ last' = Did("analyze", ext, "analyze_dockerfile", "raised", FALSE, { })
                /\ UNCHANGED << GEMINI_API_KEY, tool_option, guardian_uploader,
                                dockerfile_uploader, k8s_step, dockerfile_analysis,
                                image_name, host_name, raw_analysis >>
           ELSE Finish(tool_option, guardian_uploader, dockerfile_uploader,
                       Set(2), Set(EmptyDict), image_name, host_name,
                       IF analysis.raw_set THEN Set(ext.text) ELSE raw_analysis,
                       { },
                       Did("analyze", ext, "analyze_dockerfile", "returned", FALSE,
                           IF analysis.st_error THEN { ErrParse } ELSE { }))

\* "Analyze Dockerfile", lines 257-262.  When analyze_dockerfile raises, the
\* pass ends there: what it drew so far stays, with the exception under it.
\* Otherwise lines 260-262 run, and st.rerun() starts the pass that draws
\* step 2.
AnalyzeDockerfile(ext) ==
    /\ AnalyzePressed
    /\ LET analysis == analyze_dockerfile(dockerfile_uploader.content, ext)
       IN  IF analysis.outcome = "raised"
           THEN /\ view' = (view \ { "footer" }) \cup { "exception" }
                /\ manifests' = Unset
                /\ last' = Did("analyze", ext, "analyze_dockerfile", "raised", FALSE, { })
                /\ UNCHANGED << GEMINI_API_KEY, tool_option, guardian_uploader,
                                dockerfile_uploader, k8s_step, dockerfile_analysis,
                                image_name, host_name, raw_analysis >>
           ELSE Finish(tool_option, guardian_uploader, dockerfile_uploader,
                       Set(2), Set(analysis.value), image_name, host_name,
                       IF analysis.raw_set THEN Set(ext.text) ELSE raw_analysis,
                       { },
                       Did("analyze", ext, "analyze_dockerfile", "returned", FALSE,
                           IF analysis.st_error THEN { ErrParse } ELSE { }))

\* a variant of line 292 that tests "image_name or host_name"
RequiredFilledEither(img, hst) == img # << >> \/ hst # << >>

\* "if image_name and host_name", line 292
RequiredFilled(img, hst) == img # << >> /\ hst # << >>

\* a variant of lines 291-298 that assigns image_name and host_name only
\* when the session does not hold them yet
GenerateFilesKeepNames(img, hst) ==
    /\ GeneratePressed
    /\ IF img # << >> /\ hst # << >>
       THEN Finish(tool_option, guardian_uploader, dockerfile_uploader,
                   Set(3), dockerfile_analysis,
                   IF image_name.set THEN image_name ELSE Set(img),
                   IF host_name.set THEN host_name ELSE Set(hst),
                   raw_analysis, { },
                   Typed(Did("generate", NoCall, "none", "none", FALSE, { }), img, hst))
       ELSE Finish(tool_option, guardian_uploader, dockerfile_uploader,
                   k8s_step, dockerfile_analysis, image_name, host_name, raw_analysis,
                   { ErrRequired },
                   Typed(Did("generate", NoCall, "none", "none", FALSE, { }), img, hst))

\* a variant of lines 291-298 without the assignment of line 294
GenerateFilesNoHost(img, hst) ==
    /\ GeneratePressed
    /\ IF img # << >> /\ hst # << >>
       THEN Finish(tool_option, guardian_uploader, dockerfile_uploader,
                   Set(3), dockerfile_analysis, Set(img), host_name, raw_analysis,
                   { },
                   Typed(Did("generate", NoCall, "none", "none", FALSE, { }), img, hst))
       ELSE Finish(tool_option, guardian_uploader, dockerfile_uploader,
                   k8s_step, dockerfile_analysis, image_name, host_name, raw_analysis,
                   { ErrRequired },
                   Typed(Did("generate", NoCall, "none", "none", FALSE, { }), img, hst))

\* "Generate Kubernetes Files", lines 291-298, with the texts of the two
\* inputs of lines 280-290
GenerateFiles(img, hst) ==
    /\ GeneratePressed
    /\ IF RequiredFilled(img, hst)
       THEN Finish(tool_option, guardian_uploader, dockerfile_uploader,
                   Set(3), dockerfile_analysis, Set(img), Set(hst), raw_analysis,
                   { },
                   Typed(Did("generate", NoCall, "none", "none", FALSE, { }), img, hst))
       ELSE Finish(tool_option, guardian_uploader, dockerfile_uploader,
                   k8s_step, dockerfile_analysis, image_name, host_name, raw_analysis,
                   { ErrRequired },
                   Typed(Did("generate", NoCall, "none", "none", FALSE, { }), img, hst))

\* a variant of lines 347-349 that also deletes the three session keys
StartOverClearing ==
    /\ StartOverPressed
    /\ Finish(tool_option, guardian_uploader, dockerfile_uploader,
              Set(1), Unset, Unset, Unset, raw_analysis,
              { }, Did("restart", NoCall, "none", "none", FALSE, { }))

\* a variant of lines 347-349 that goes back one step only
StartOverToConfigure ==
    /\ StartOverPressed
    /\ Finish(tool_option, guardian_uploader, dockerfile_uploader,
              Set(2), dockerfile_analysis, image_name, host_name, raw_analysis,
              { }, Did("restart", NoCall, "none", "none", FALSE, { }))

\* "Start Over", lines 347-349
StartOver ==
    /\ StartOverPressed
    /\ Finish(tool_option, guardian_uploader, dockerfile_uploader,
              Set(1), dockerfile_analysis, image_name, host_name, raw_analysis,
              { }, Did("restart", NoCall, "none", "none", FALSE, { }))

Next ==
    \/ Rerun
    \/ \E tool \in { Guardian, Generator } : SelectTool(tool)
    \/ \E file \in Files \cup { NoFile } : UploadGuardian(file)
    \/ \E ext \in ExtOutcomes : Scan(ext)
    \/ \E file \in Files \cup { NoFile } : UploadDockerfile(file)
    \/ \E ext \in ExtOutcomes : AnalyzeDockerfile(ext)
    \/ \E img \in ImageNames, hst \in HostNames : GenerateFiles(img, hst)
    \/ StartOver

Spec == Init /\ [][Next]_vars

\* ------------------------------------------------------------------------
\* The response parser on every text of a bounded set: the wizard waits in
\* step 1 with a Dockerfile uploaded, and "Analyze Dockerfile" is answered
\* with one of the texts.
\* ------------------------------------------------------------------------

\* a fence without the json label
BareFence == << Backquote, Backquote, Backquote, "\n" >>

PortsObject ==
    << "{","\"","p","o","r","t","s","\"",":"," ","[","3","0","0","0","]","}" >>

Pieces ==
    << FenceOpen, FenceClose, BareFence, PortsObject, << "o","k" >>, << "1" >>,
       << "[" >>, << "]" >> >>

\* the longest text is this many pieces long
MaxPieces == 4

RECURSIVE Concat(_)
Concat(pieces) ==
    IF pieces = << >> THEN << >> ELSE Head(pieces) \o Concat(Tail(pieces))

BoundedTexts ==
    { Concat([k \in DOMAIN f |-> Pieces[f[k]]]) :
        f \in UNION { [1..n -> 1..Len(Pieces)] : n \in 0..MaxPieces } }

InitParse ==
    /\ GEMINI_API_KEY = TRUE
    /\ tool_option = Generator
    /\ guardian_uploader = NoFile
    /\ dockerfile_uploader = FileDockerfile
    /\ k8s_step = Set(1)
    /\ dockerfile_analysis = Unset
    /\ image_name = Unset
    /\ host_name = Unset
    /\ raw_analysis = Unset
    /\ view = Draw(Generator, NoFile, FileDockerfile, 1, Unset, Unset, Unset)
    /\ manifests = Unset
    /\ last = Did("upload_dockerfile", NoCall, "none", "none", FALSE, { })

\* violated under Spec: InitParse is a state a session reaches
InitParseReached == ~InitParse

ParseResponse ==
    /\ "analyze_button" \in view
    /\ \E text \in BoundedTexts : AnalyzeDockerfile(ResponseText(text))

NextParse == ParseResponse

SpecParse == InitParse /\ [][NextParse]_vars

\* ------------------------------------------------------------------------
\* The renderers on every analysis record of a bounded set: the wizard
\* waits in step 2 after "Analyze Dockerfile" was answered with the JSON
\* text of one of the records, and "Generate Kubernetes Files" is pressed.
\* ------------------------------------------------------------------------

PortValues == { 80, 443, 3000 }

\* the longest ports list is this many ports long
MaxPorts == 2

\* the longest env_vars list is this many entries long
MaxEnv == 2

EnvEntry(name, value) ==
    JObj(<< << KeyName, JStr(name) >>, << KeyValue, JStr(value) >> >>)

EnvEntries == { EnvEntry(<< "A" >>, << "b" >>), EnvEntry(<< "C" >>, << >>) }

\* the key is not in the record
Absent == [t |-> "absent"]

PortsChoices ==
    { Absent } \cup
    { JArr([k \in DOMAIN f |-> JNum(f[k])]) :
        f \in UNION { [1..n -> PortValues] : n \in 0..MaxPorts } }

EnvVarsChoices ==
    { Absent } \cup
    { JArr(f) : f \in UNION { [1..n -> EnvEntries] : n \in 0..MaxEnv } }

CommandChoices ==
    { Absent, JNull, JStr(<< >>), JStr(<< "r","u","n" >>), JArr(<< >>),
      JArr(<< JStr(<< "a" >>), JStr(<< "b" >>) >>) }

RecordField(k, v) == IF v.t = "absent" THEN << >> ELSE << << k, v >> >>

AnalysisRecord(ports, env_vars, command) ==
    JObj(RecordField(KeyPorts, ports) \o RecordField(KeyEnvVars, env_vars)
         \o RecordField(KeyCommand, command))

BoundedAnalyses ==
    { AnalysisRecord(p, e, c) :
        p \in PortsChoices, e \in EnvVarsChoices, c \in CommandChoices }

DigitChars == << "0","1","2","3","4","5","6","7","8","9" >>

\* the decimal digits of a natural number
RECURSIVE NumText(_)
NumText(n) ==
    IF n < 10 THEN << DigitChars[n + 1] >>
    ELSE NumText(n \div 10) \o << DigitChars[(n % 10) + 1] >>

\* the JSON text of a value, items separated by ", " and a key from its
\* value by ": "
RECURSIVE ValueText(_)
RECURSIVE ItemsText(_)
RECURSIVE PairsText(_)
ValueText(v) ==
    CASE v.t = "null" -> << "n","u","l","l" >>
      [] v.t = "bool" -> IF v.b THEN << "t","r","u","e" >> ELSE << "f","a","l","s","e" >>
      [] v.t = "num" -> NumText(v.n)
      [] v.t = "str" -> << "\"" >> \o v.s \o << "\"" >>
      [] v.t = "arr" -> << "[" >> \o ItemsText(v.a) \o << "]" >>
      [] v.t = "obj" -> << "{" >> \o PairsText(v.o) \o << "}" >>

ItemsText(a) ==
    IF a = << >> THEN << >>
    ELSE ValueText(Head(a))
         \o (IF Len(a) > 1 THEN << ",", " " >> \o ItemsText(Tail(a)) ELSE << >>)

PairsText(o) ==
    IF o = << >> THEN << >>
    ELSE << "\"" >> \o Head(o)[1] \o << "\"", ":", " " >> \o ValueText(Head(o)[2])
         \o (IF Len(o) > 1 THEN << ",", " " >> \o PairsText(Tail(o)) ELSE << >>)

BoundedAnalysisTexts == { ValueText(a) : a \in BoundedAnalyses }

\* the session after lines 257-262 stored the record that a text decodes to
AnalysedAs(text) ==
    /\ GEMINI_API_KEY = TRUE
    /\ tool_option = Generator
    /\ guardian_uploader = NoFile
    /\ dockerfile_uploader = NoFile
    /\ k8s_step = Set(2)
    /\ dockerfile_analysis = Set(parse_response(text).v)
    /\ image_name = Unset
    /\ host_name = Unset
    /\ raw_analysis = Set(text)
    /\ view = Draw(Generator, NoFile, NoFile, 2, Set(parse_response(text).v),
                   Unset, Unset)
    /\ manifests = Unset
    /\ last = Did("analyze", ResponseText(text), "analyze_dockerfile",
                  "returned", FALSE, { })

InitRender == \E text \in BoundedAnalysisTexts : AnalysedAs(text)

\* violated under Spec: a session reaches a state of InitRender
InitRenderReached == ~AnalysedAs(ValueText(EmptyDict))

GenerateFromRecord ==
    /\ "generate_button" \in view
    /\ \E img \in ImageNames, hst \in HostNames : GenerateFiles(img, hst)

NextRender == GenerateFromRecord

SpecRender == InitRender /\ [][NextRender]_vars

\* under SpecRender the stored analysis is one of the bounded records: each
\* text decodes to the record it was written from
RenderInputsDecode ==
    /\ dockerfile_analysis.set
    /\ dockerfile_analysis.v \in BoundedAnalyses
    /\ raw_analysis = Set(ValueText(dockerfile_analysis.v))

\* ------------------------------------------------------------------------
\* The wizard's steps and the properties of its transitions
\* ------------------------------------------------------------------------

Upload == 1

Configure == 2

Generate == 3

\* the wizard's fields of the session
wizard_session == << k8s_step, dockerfile_analysis, image_name, host_name >>

\* C1: a "Generate Kubernetes Files" request is made in Configure; it moves
\* the wizard to Generate and stores both texts exactly when both texts are
\* non-empty; when one of them is empty the step stays Configure, no session
\* key changes, and the required-fields error is on the page.
C1_GenerateIffBothFilled ==
    [][ last'.op = "generate" =>
          LET img == last'.typed[1]
              hst == last'.typed[2]
          IN  /\ current_step = Configure
              /\ (Len(img) > 0 /\ Len(hst) > 0) =>
                     /\ current_step' = Generate
                     /\ image_name' = Set(img)
                     /\ host_name' = Set(hst)
                     /\ ErrRequired \notin view'
              /\ (Len(img) = 0 \/ Len(hst) = 0) =>
                     /\ current_step' = Configure
                     /\ UNCHANGED << wizard_session, raw_analysis >>
                     /\ ErrRequired \in view'
      ]_vars

\* C1 witness: a request with an image name and an empty host name was
\* refused.
C1_Witness ==
    /\ last.op = "generate"
    /\ last.typed[1] = DefaultImageName
    /\ last.typed[2] = << >>
    /\ current_step = Configure
    /\ ErrRequired \in view

\* C2: whenever the wizard is in Generate, image_name and host_name are both
\* in the session and both non-empty.
C2_GenerateHasNames ==
    current_step = Generate =>
        /\ image_name.set
        /\ host_name.set
        /\ Len(image_name.v) > 0
        /\ Len(host_name.v) > 0

\* C2 witness: the wizard is in Generate with names that are not the
\* defaults, after an analysis whose answer did not decode.
C2_Witness ==
    /\ current_step = Generate
    /\ last.op = "generate"
    /\ image_name.set /\ image_name.v # DefaultImageName
    /\ host_name.set /\ host_name.v # DefaultHostName
    /\ raw_analysis = Set(TextProse)
    /\ dockerfile_analysis = Set(EmptyDict)

\* C3 as stated: after a restart the step is Upload and none of image_name,
\* host_name, dockerfile_analysis is in the session.
C3_RestartClears ==
    last.op = "restart" =>
        /\ current_step = Upload
        /\ ~image_name.set
        /\ ~host_name.set
        /\ ~dockerfile_analysis.set

\* C3 amended: a restart is made in Generate, sets the step to Upload and
\* leaves image_name, host_name and dockerfile_analysis in the session with
\* the values they had.
C3_RestartKeepsFields ==
    [][ last'.op = "restart" =>
          /\ current_step = Generate
          /\ current_step' = Upload
          /\ UNCHANGED << dockerfile_analysis, image_name, host_name >>
          /\ dockerfile_analysis'.set /\ image_name'.set /\ host_name'.set
      ]_vars

\* C3 witness: the page right after a restart, the three keys still set.
C3_Witness ==
    /\ last.op = "restart"
    /\ current_step = Upload
    /\ image_name.set /\ host_name.set /\ dockerfile_analysis.set
    /\ "dockerfile_uploader" \in view

\* ------------------------------------------------------------------------
\* What the response parser is to return, stated on the positions of the
\* fences in the text
\* ------------------------------------------------------------------------

\* the fenced blocks labelled json: an opening fence at b[1] and a closing
\* fence at b[2], after the opening fence's newline
Blocks(text) ==
    { b \in { i \in 1..Len(text) : MatchAt(text, i, FenceOpen) }
            \X { j \in 1..Len(text) : MatchAt(text, j, FenceClose) } :
        b[2] >= b[1] + Len(FenceOpen) }

\* the block that opens first, closed by the first fence that can close it
FirstBlock(text) ==
    CHOOSE b \in Blocks(text) :
        \A c \in Blocks(text) : b[1] < c[1] \/ (b[1] = c[1] /\ b[2] <= c[2])

\* the text the parser is to decode
DecodedPart(text) ==
    IF Blocks(text) # { }
    THEN SubSeq(text, FirstBlock(text)[1] + Len(FenceOpen), FirstBlock(text)[2] - 1)
    ELSE text

\* the record the parser is to return
ExpectedRecord(text) ==
    IF json_loads(DecodedPart(text)).ok THEN json_loads(DecodedPart(text)).v ELSE EmptyDict

\* the structured extraction fails for this answer of the external model
ExtractionFails(ext) ==
    \/ ext.kind = "notext"
    \/ ext.kind = "text" /\ ~json_loads(DecodedPart(ext.text)).ok

\* C4: the step changes from Upload to Configure only in an "Analyze
\* Dockerfile" request made with an uploaded file that is_dockerfile accepts,
\* and that transition stores the parser's result as dockerfile_analysis;
\* and when a file that is_dockerfile rejects is uploaded the step stays
\* Upload, dockerfile_analysis is not modified, the invalid-file error is on
\* the page and the Analyze button is not.
C4_UploadToConfigure ==
    [][ /\ (current_step = Upload /\ current_step' = Configure) =>
              /\ last'.op = "analyze"
              /\ dockerfile_uploader.present
              /\ is_dockerfile(dockerfile_uploader.name, dockerfile_uploader.content)
              /\ dockerfile_analysis' =
                     Set(IF last'.ext.kind = "text"
                         THEN ExpectedRecord(last'.ext.text) ELSE EmptyDict)
        /\ ( /\ last'.op = "upload_dockerfile"
             /\ dockerfile_uploader'.present
             /\ ~is_dockerfile(dockerfile_uploader'.name, dockerfile_uploader'.content) ) =>
              /\ current_step = Upload
              /\ current_step' = Upload
              /\ UNCHANGED dockerfile_analysis
              /\ ErrInvalidDockerfile \in view'
              /\ "analyze_button" \notin view'
      ]_vars

\* C4 witness: an analysis of a file accepted by its content alone has moved
\* the wizard to Configure with the decoded record.
C4_Witness ==
    /\ last.op = "analyze"
    /\ last.ext = ResponseText(TextBareObject)
    /\ current_step = Configure
    /\ dockerfile_analysis.set
    /\ DictGet(dockerfile_analysis.v, KeyPorts, JNull) = JArr(<< JNum(80), JNum(443) >>)

\* C5: a session starts in Upload, the step is always one of the three, and
\* the step only ever changes Upload -> Configure, Configure -> Generate or
\* Generate -> Upload.
C5_StepOrder ==
    /\ current_step = Upload
    /\ [](current_step \in { Upload, Configure, Generate })
    /\ [][ \/ current_step' = current_step
           \/ current_step = Upload /\ current_step' = Configure
           \/ current_step = Configure /\ current_step' = Generate
           \/ current_step = Generate /\ current_step' = Upload
       ]_vars

\* C5 witness: the wizard is in Configure again after a full round: the names
\* stored on the way to Generate are in the session.
C5_Witness ==
    /\ current_step = Configure
    /\ last.op = "analyze"
    /\ image_name.set
    /\ host_name.set

\* C6: when the external call fails, the analysis function that made it
\* returns, and what it returns carries the error.
C6_FailSoft ==
    last.ext.kind = "error" => (last.outcome = "returned" /\ last.error)

\* C7: when the call of "Analyze Dockerfile" fails, no wizard field changes,
\* the step stays Upload, the exception is on the page and the Analyze button
\* still is; and a retry that the external model answers moves the wizard to
\* Configure with the parser's result.
C7_FailedCallKeepsSession ==
    [][ /\ (last'.op = "analyze" /\ last'.ext.kind = "error") =>
              /\ UNCHANGED << wizard_session, raw_analysis >>
              /\ current_step' = Upload
              /\ "exception" \in view'
              /\ "analyze_button" \in view'
              /\ UNCHANGED dockerfile_uploader
        /\ ( /\ last.op = "analyze" /\ last.ext.kind = "error"
             /\ last'.op = "analyze" /\ last'.ext.kind # "error" ) =>
              /\ current_step' = Configure
              /\ dockerfile_analysis' =
                     Set(IF last'.ext.kind = "text"
                         THEN ExpectedRecord(last'.ext.text) ELSE EmptyDict)
      ]_vars

\* C7 witness: the call failed in a session that holds the fields of an
\* earlier round.
C7_Witness ==
    /\ last.op = "analyze"
    /\ last.ext.kind = "error"
    /\ current_step = Upload
    /\ image_name.set
    /\ dockerfile_analysis.set

\* C8: when the structured extraction fails in "Analyze Dockerfile", the
\* wizard is in Configure with the empty record and the page shows the
\* parse-failure message.
C8_ParseWarningVisible ==
    (last.op = "analyze" /\ ExtractionFails(last.ext)) =>
        /\ current_step = Configure
        /\ dockerfile_analysis = Set(EmptyDict)
        /\ ErrParse \in view

\* the part of C8 the script does: Configure with the empty record
C8_ProceedsWithEmptyRecord ==
    (last.op = "analyze" /\ ExtractionFails(last.ext)) =>
        /\ current_step = Configure
        /\ dockerfile_analysis = Set(EmptyDict)
        /\ ErrParse \in last.dropped

\* C9: for every text, the record stored by the analysis is the decoding of
\* the first fenced json block when there is one and of the whole text when
\* there is none; when that decoding fails it is the empty record and the
\* parse error is signalled (and only then); a fenced block that holds
\* {"ports": [3000]} gives ports = [3000] and no other field.
C9_DecodeWithFallback ==
    (last.op = "analyze" /\ last.ext.kind = "text") =>
        LET text == last.ext.text
            decoded == json_loads(DecodedPart(text))
        IN  /\ dockerfile_analysis.set
            /\ decoded.ok => dockerfile_analysis.v = decoded.v
            /\ ~decoded.ok => dockerfile_analysis.v = EmptyDict
            /\ (ErrParse \in last.dropped) <=> ~decoded.ok
            /\ (Blocks(text) # { } /\ DecodedPart(text) = PortsObject) =>
                   /\ dockerfile_analysis.v =
                          JObj(<< << KeyPorts, JArr(<< JNum(3000) >>) >> >>)
                   /\ ~HasKey(dockerfile_analysis.v, KeyEnvVars)
                   /\ ~HasKey(dockerfile_analysis.v, KeyCommand)

\* C9 witness: a text with prose followed by a fenced block that holds the
\* ports object.
C9_Witness ==
    /\ last.op = "analyze"
    /\ last.ext.kind = "text"
    /\ last.ext.text = << "o","k" >> \o FenceOpen \o PortsObject \o FenceClose
    /\ dockerfile_analysis = Set(JObj(<< << KeyPorts, JArr(<< JNum(3000) >>) >> >>))

\* C10: without the API key, after every interaction the page shows the
\* missing-key message and nothing else, no external call was made, no
\* uploader holds a file, and no session key was ever assigned.
C10_NoKeyNoService ==
    ~GEMINI_API_KEY =>
        /\ view \subseteq { ErrMissingKey }
        /\ last.op # "none" => view = { ErrMissingKey }
        /\ last.ext.kind = "none"
        /\ last.fn = "none"
        /\ ~guardian_uploader.present
        /\ ~dockerfile_uploader.present
        /\ ~k8s_step.set
        /\ ~dockerfile_analysis.set
        /\ ~image_name.set
        /\ ~host_name.set
        /\ ~raw_analysis.set
        /\ ~manifests.set

\* C10 witness: the page was loaded without the key.
C10_Witness ==
    /\ ~GEMINI_API_KEY
    /\ last.op = "rerun"
    /\ view = { ErrMissingKey }

\* ------------------------------------------------------------------------
\* C11: file classification and the rejection of an upload
\* ------------------------------------------------------------------------

KindDockerfile == "Dockerfile"
KindConfigFile == "ConfigFile"
KindUnsupported == "Unsupported"

\* position j of text s is the first character of its line that is not
\* leading whitespace
AfterLeadingWhitespace(s, j) ==
    /\ j \in 1..Len(s)
    /\ s[j] \notin Whitespace
    /\ \E i \in 1..j :
          /\ i = 1 \/ s[i - 1] = "\n"
          /\ \A k \in i..(j - 1) : s[k] \in Whitespace /\ s[k] # "\n"

\* some line of the upper-cased content, leading whitespace stripped, starts
\* with a Dockerfile keyword
KeywordLine(file_content) ==
    \E j \in 1..Len(file_content) : \E kw \in dockerfile_keywords :
        /\ AfterLeadingWhitespace(str_upper(file_content), j)
        /\ MatchAt(str_upper(file_content), j, kw)

\* the classification as the claim words it
Classify(file_name, file_content) ==
    IF str_lower(file_name) = << "d","o","c","k","e","r","f","i","l","e" >>
       \/ KeywordLine(file_content)
    THEN KindDockerfile
    ELSE IF \E e \in guardian_extensions : str_endswith(file_name, e)
    THEN KindConfigFile
    ELSE KindUnsupported

\* C11 (auxiliary): the wizard's uploader rejects a file with the
\* invalid-file error exactly when the classification is not Dockerfile.
C11_WizardRejectsNonDockerfile ==
    ( tool_option = Generator /\ "dockerfile_uploader" \in view
      /\ dockerfile_uploader.present )
    => ( ErrInvalidDockerfile \in view
         <=> Classify(dockerfile_uploader.name, dockerfile_uploader.content)
                # KindDockerfile )

\* C11: an uploaded file is rejected with the unsupported / invalid-file
\* error exactly when its classification is not a kind the selected tool
\* accepts: the scan tool accepts Dockerfile and ConfigFile, the wizard
\* accepts Dockerfile.
C11_RejectedIffNotAccepted ==
    /\ C11_WizardRejectsNonDockerfile
    /\ ( tool_option = Guardian /\ "guardian_uploader" \in view
         /\ guardian_uploader.present )
       => ( ErrUnsupported \in view
            <=> Classify(guardian_uploader.name, guardian_uploader.content)
                   = KindUnsupported )

\* ------------------------------------------------------------------------
\* C12, C13: what the text of a manifest says.  The text is read by its
\* layout: a "- " opens an entry of a list, the keys of the entry are the
\* lines whose key stands in the column of the entry's first key, and the
\* entry ends at the first line that starts at or left of the "- ".
\* ------------------------------------------------------------------------

\* the only line with this key
KeyLine(lines, key) == CHOOSE j \in 1..Len(lines) : lines[j].key = key

\* the lines under the key of line i: they start right of the key, or are
\* list entries whose "- " stands in the key's column
ValueRegion(lines, i) ==
    { j \in (i + 1)..Len(lines) :
        \A k \in (i + 1)..j :
            \/ lines[k].at > lines[i].col
            \/ lines[k].item /\ lines[k].at = lines[i].col }

\* the entries of the list under the key of line i, in order
SeqItems(lines, i) ==
    SelectSeq([k \in 1..Len(lines) |-> k],
              LAMBDA j : /\ j \in ValueRegion(lines, i)
                         /\ lines[j].item
                         /\ lines[j].at = lines[i + 1].at)

\* the lines of the entry opened on line i
ItemRegion(lines, i) ==
    { j \in (i + 1)..Len(lines) : \A k \in (i + 1)..j : lines[k].at > lines[i].at }

\* no line of the entry starts left of the entry's first key
ItemWellFormed(lines, i) ==
    \A j \in ItemRegion(lines, i) : lines[j].at >= lines[i].col

ItemKeyLines(lines, i) ==
    { i } \cup { j \in ItemRegion(lines, i) :
                    ~lines[j].item /\ lines[j].col = lines[i].col }

ItemHas(lines, i, key) == \E j \in ItemKeyLines(lines, i) : lines[j].key = key

ItemField(lines, i, key) ==
    lines[CHOOSE j \in ItemKeyLines(lines, i) : lines[j].key = key].value

\* C12 (auxiliary): the dict container_spec of lines 53-65 has name and
\* image image_name, one containerPort per port in order, env exactly when
\* env_vars is truthy and command exactly when command is truthy.
C12_ContainerSpecDict ==
    manifests.set =>
        LET config == ConfigOrEmpty(ConfigOf(dockerfile_analysis))
            ports == Items(DictGet(config, KeyPorts, JArr(<< JNum(80) >>)))
            spec == container_spec(manifests.v.deployment)
            keys == [n \in 1..Len(spec) |-> spec[n][1]]
        IN  /\ SubSeq(keys, 1, 3) = << "name", "image", "ports" >>
            /\ spec[1][2] = image_name.v
            /\ spec[2][2] = image_name.v
            /\ spec[3][2] = [n \in 1..Len(ports) |-> [containerPort |-> ports[n]]]
            /\ (\E n \in 1..Len(keys) : keys[n] = "env")
                  <=> Truthy(DictGet(config, KeyEnvVars, JArr(<< >>)))
            /\ (\E n \in 1..Len(keys) : keys[n] = "command")
                  <=> Truthy(DictGet(config, KeyCommand, JNull))

\* C12: the Deployment manifest has one container; its name and its image
\* are image_name; its ports are one containerPort entry per element of
\* analysis.ports, in order ([80] when ports is absent); it has an env list
\* with one {name, value} entry per env var exactly when analysis.env_vars
\* is non-empty; it has a command list exactly when analysis.command is
\* present, a single string wrapped as a one-element list.
C12_DeploymentContainer ==
    manifests.set =>
        LET config == ConfigOrEmpty(ConfigOf(dockerfile_analysis))
            ports == Items(DictGet(config, KeyPorts, JArr(<< JNum(80) >>)))
            env_vars == DictGet(config, KeyEnvVars, JArr(<< >>))
            command == DictGet(config, KeyCommand, JNull)
            lines == deployment_yaml(manifests.v.deployment)
            items == SeqItems(lines, KeyLine(lines, "containers"))
        IN  /\ Len(items) = 1
            /\ ItemWellFormed(lines, items[1])
            /\ ItemHas(lines, items[1], "name")
            /\ ItemField(lines, items[1], "name") = image_name.v
            /\ ItemHas(lines, items[1], "image")
            /\ ItemField(lines, items[1], "image") = image_name.v
            /\ ItemHas(lines, items[1], "ports")
            /\ ItemField(lines, items[1], "ports")
                  = [n \in 1..Len(ports) |-> [containerPort |-> ports[n]]]
            /\ ItemHas(lines, items[1], "env") <=> Truthy(env_vars)
            /\ ItemHas(lines, items[1], "env") =>
                  ItemField(lines, items[1], "env")
                     = [n \in 1..Len(Items(env_vars)) |->
                           [name |-> DictGet(Items(env_vars)[n], KeyName, JNull),
                            value |-> DictGet(Items(env_vars)[n], KeyValue, JNull)]]
            /\ ItemHas(lines, items[1], "command") <=> command.t # "null"
            /\ ItemHas(lines, items[1], "command") =>
                  ItemField(lines, items[1], "command")
                     = IF command.t = "arr" THEN command.a ELSE << command >>

\* C12 (auxiliary): in the text of the Deployment the container entry is not
\* well formed: its first key stands in column 16, every other key of
\* container_spec in column 8.
C12_ContainerEntryBroken ==
    manifests.set =>
        LET lines == deployment_yaml(manifests.v.deployment)
            items == SeqItems(lines, KeyLine(lines, "containers"))
        IN  /\ Len(items) = 1
            /\ lines[items[1]].col = 16
            /\ \A j \in ItemRegion(lines, items[1]) : lines[j].at = 8
            /\ ~ItemWellFormed(lines, items[1])

\* C13: the Service manifest is of type ClusterIP and lists one port entry
\* per element of analysis.ports, in order ([80] when ports is absent), each
\* with port = targetPort = that element.
C13_ServicePorts ==
    manifests.set =>
        LET config == ConfigOrEmpty(ConfigOf(dockerfile_analysis))
            ports == Items(DictGet(config, KeyPorts, JArr(<< JNum(80) >>)))
            lines == service_yaml(manifests.v.service)
            items == SeqItems(lines, KeyLine(lines, "ports"))
        IN  /\ lines[KeyLine(lines, "type")].value = "ClusterIP"
            /\ lines[KeyLine(lines, "type")].at = lines[KeyLine(lines, "ports")].at
            /\ Len(items) = Len(ports)
            /\ \A n \in 1..Len(items) :
                  /\ ItemWellFormed(lines, items[n])
                  /\ ItemHas(lines, items[n], "port")
                  /\ ItemField(lines, items[n], "port") = ports[n]
                  /\ ItemHas(lines, items[n], "targetPort")
                  /\ ItemField(lines, items[n], "targetPort") = ports[n]

\* a Service was rendered from a record with two different ports, neither
\* of them 80
C13_Witness ==
    /\ manifests.set
    /\ dockerfile_analysis.v.t = "obj"
    /\ HasKey(dockerfile_analysis.v, KeyPorts)
    /\ DictGet(dockerfile_analysis.v, KeyPorts, JNull)
          = JArr(<< JNum(3000), JNum(443) >>)
    /\ Len(SeqItems(service_yaml(manifests.v.service),
                    KeyLine(service_yaml(manifests.v.service), "ports"))) = 2

\* ------------------------------------------------------------------------
\* C14: the Generate view without an analysis
\* ------------------------------------------------------------------------

\* the manifests of the default analysis: ports [80], no env, no command
RenderedFromDefaults(m, img) ==
    /\ ~m.deployment.raised
    /\ ~m.service.raised
    /\ m.deployment.container_name = img
    /\ m.deployment.image = img
    /\ m.deployment.ports = << [containerPort |-> JNum(80)] >>
    /\ ~m.deployment.has_env
    /\ ~m.deployment.has_command
    /\ [n \in 1..Len(container_spec(m.deployment)) |-> container_spec(m.deployment)[n][1]]
          = << "name", "image", "ports" >>
    /\ m.service.ports
          = << [protocol |-> "TCP", port |-> JNum(80), targetPort |-> JNum(80)] >>
    /\ Len(SeqItems(service_yaml(m.service), KeyLine(service_yaml(m.service), "ports"))) = 1
    /\ m.ingress.service_name = img \o << "-service" >>

\* C14: in Generate, when dockerfile_analysis is the empty record (a failed
\* parse leaves it) the pass ends without an exception, shows the three
\* manifests, and the Deployment and the Service are those of the default
\* analysis; the same holds of the pass over step 3 for a session in which
\* dockerfile_analysis was never set (line 306 reads it with the default {}).
C14_GenerateWithoutAnalysis ==
    /\ ( /\ ~KeyMissing
         /\ tool_option = Generator
         /\ current_step = Generate
         /\ ConfigOf(dockerfile_analysis).t = "obj"
         /\ ConfigOf(dockerfile_analysis).o = << >> )
       => /\ "exception" \notin view
          /\ { "deployment_yaml", "service_yaml", "ingress_yaml" } \subseteq view
          /\ manifests.set
          /\ RenderedFromDefaults(manifests.v, image_name.v)
    /\ ~KeyMissing =>
          \A img \in ImageNames \ { << >> } : \A hst \in HostNames \ { << >> } :
              /\ ~Step3Raises(Unset, Set(img), Set(hst))
              /\ { "deployment_yaml", "service_yaml", "ingress_yaml" }
                    \subseteq Draw(Generator, NoFile, NoFile, Generate, Unset,
                                   Set(img), Set(hst))
              /\ RenderedFromDefaults(Step3Manifests(Unset, Set(img), Set(hst)), img)

\* Generate is shown after a response that held no JSON left the empty record
C14_Witness ==
    /\ tool_option = Generator
    /\ current_step = Generate
    /\ raw_analysis = Set(TextProse)
    /\ dockerfile_analysis = Set(EmptyDict)
    /\ manifests.set
    /\ "ingress_yaml" \in view

\* ------------------------------------------------------------------------
\* C15: every value the parser stores renders
\* ------------------------------------------------------------------------

\* C15: whatever value "Analyze Dockerfile" stored as dockerfile_analysis,
\* the pass that shows Generate raises nothing and shows the Deployment,
\* the Service and the Ingress.
C15_EveryParserOutputRenders ==
    ( ~KeyMissing /\ tool_option = Generator /\ current_step = Generate )
    => /\ "exception" \notin view
       /\ { "deployment_yaml", "service_yaml", "ingress_yaml" } \subseteq view
       /\ manifests.set

\* C15 (auxiliary): the pass that shows Generate raises exactly when the
\* stored value is neither None nor a dict, or its ports cannot be iterated,
\* or its env_vars is truthy and cannot be iterated or has an entry without
\* the keys name and value.
C15_RaisesOnOddShapes ==
    ( ~KeyMissing /\ tool_option = Generator /\ current_step = Generate )
    => LET a == ConfigOrEmpty(ConfigOf(dockerfile_analysis))
       IN  "exception" \in view
           <=> \/ a.t # "obj"
               \/ ~Iterable(DictGet(a, KeyPorts, JArr(<< JNum(80) >>)))
               \/ /\ Truthy(DictGet(a, KeyEnvVars, JArr(<< >>)))
                  /\ \/ ~Iterable(DictGet(a, KeyEnvVars, JArr(<< >>)))
                     \/ \E n \in 1..Len(Items(DictGet(a, KeyEnvVars, JArr(<< >>)))) :
                           ~EnvEntryOk(Items(DictGet(a, KeyEnvVars, JArr(<< >>)))[n])

\* ------------------------------------------------------------------------
\* C16: the Ingress backend and the Service of the same step
\* ------------------------------------------------------------------------

\* the value under a key of the mapping opened by the key of line i
ChildLine(lines, i, key) ==
    CHOOSE j \in ValueRegion(lines, i) :
        ~lines[j].item /\ lines[j].col = lines[i + 1].col /\ lines[j].key = key

\* the service name and the port number of the Ingress backend
BackendName(ingress) ==
    ingress[ChildLine(ingress, KeyLine(ingress, "service"), "name")].value

BackendPort(ingress) ==
    ingress[ChildLine(ingress,
                      ChildLine(ingress, KeyLine(ingress, "service"), "port"),
                      "number")].value

\* metadata.name of the Service
ServiceName(service) == service[ChildLine(service, KeyLine(service, "metadata"), "name")].value

\* the numbers written as port in the entries under ports of the Service
ServicePorts(service) ==
    { ItemField(service, j, "port") :
        j \in { k \in ValueRegion(service, KeyLine(service, "ports")) : service[k].item } }

\* C16 (auxiliary): the backend service name is the name of the Service
C16_BackendNameIsServiceName ==
    manifests.set =>
        /\ BackendName(ingress_yaml(manifests.v.ingress))
              = ServiceName(service_yaml(manifests.v.service))
        /\ ServiceName(service_yaml(manifests.v.service))
              = image_name.v \o << "-service" >>

\* C16: in Generate the Ingress backend names the Service rendered in the
\* same pass, and the backend port number is one of that Service's ports.
C16_BackendResolves ==
    manifests.set =>
        /\ C16_BackendNameIsServiceName
        /\ BackendPort(ingress_yaml(manifests.v.ingress)) = JNum(80)
        /\ BackendPort(ingress_yaml(manifests.v.ingress))
              \in ServicePorts(service_yaml(manifests.v.service))

\* ------------------------------------------------------------------------
\* C17: the manifests of a run and the values of earlier runs
\* ------------------------------------------------------------------------

\* C17: Generate is entered only from Configure and Configure only from
\* Upload; every Upload->Configure transition writes dockerfile_analysis
\* from the response it received and nothing else writes it; every
\* Configure->Generate transition writes image_name and host_name from the
\* texts typed in it and nothing else writes them; and the manifests on the
\* page are rendered from the three session values.  So the manifests of
\* Generate are those of the most recent analysis and of the most recent
\* names, in every run.
C17_GenerateUsesLatest ==
    [][ /\ (current_step' = Configure /\ current_step # Configure)
              => current_step = Upload
        /\ (current_step' = Generate /\ current_step # Generate)
              => current_step = Configure
        /\ (current_step = Upload /\ current_step' = Configure)
              => /\ last'.op = "analyze"
                 /\ dockerfile_analysis'
                       = Set(analyze_dockerfile(dockerfile_uploader.content,
                                                last'.ext).value)
        /\ dockerfile_analysis' # dockerfile_analysis
              => current_step = Upload /\ current_step' = Configure
        /\ (current_step = Configure /\ current_step' = Generate)
              => /\ last'.op = "generate"
                 /\ image_name' = Set(last'.typed[1])
                 /\ host_name' = Set(last'.typed[2])
        /\ (image_name' # image_name \/ host_name' # host_name)
              => current_step = Configure /\ current_step' = Generate
        /\ manifests'.set
              => /\ current_step' = Generate
                 /\ manifests'.v = Step3Manifests(dockerfile_analysis', image_name',
                                                  host_name')
        /\ (~KeyMissing /\ tool_option' = Generator /\ current_step' = Generate
            /\ "exception" \notin view')
              => manifests'.set
      ]_vars

\* a later run is in Configure: the names of an earlier run are still in
\* the session, and the analysis is the one the last response decodes to
C17_Witness ==
    /\ current_step = Configure
    /\ last.op = "analyze"
    /\ image_name = Set(DefaultImageName)
    /\ host_name = Set(DefaultHostName)
    /\ raw_analysis = Set(TextFencedPorts)
    /\ dockerfile_analysis = Set(parse_response(TextFencedPorts).v)

\* ------------------------------------------------------------------------
\* C18: the scan tool and the wizard's session
\* ------------------------------------------------------------------------

\* C18: a pass that starts or ends in the scan tool (the tool is selected, a
\* file is uploaded to it, a scan succeeds or fails, the user switches back
\* to the wizard) leaves current_step, dockerfile_analysis, image_name and
\* host_name as they were.
C18_ScanToolKeepsWizard ==
    [][ (tool_option = Guardian \/ tool_option' = Guardian)
          => UNCHANGED << current_step, dockerfile_analysis, image_name, host_name >>
      ]_vars

\* a scan has failed in the scan tool while the wizard's session holds
\* step 3, an analysis and both names
C18_Witness ==
    /\ tool_option = Guardian
    /\ last.op = "scan"
    /\ last.error
    /\ k8s_step = Set(3)
    /\ dockerfile_analysis = Set(parse_response(TextBareObject).v)
    /\ image_name = Set(DefaultImageName)
    /\ host_name = Set(DefaultHostName)

=============================================================================
